---- MODULE Spec2Model ----
(***************************************************************************)
(* mst-parser: a recursive-descent parser of `{{...}}` tags into a tree of  *)
(* Text and Variable nodes, with limits on nesting depth and node count.    *)
(*                                                                         *)
(* The repository holds two implementations of the engine:                 *)
(*   src/src/parser.rs  Parser::new(L).parse(input) and parse(input)        *)
(*   src/src/lib.rs     parse(input, &L)                                    *)
(* Both are modelled, each from its own source.  The recursion of           *)
(* parse_recursive is an explicit stack of frames; one action is one        *)
(* iteration of the scanning loop, the return of a nested call to its       *)
(* caller, or the end of input.                                             *)
(*                                                                         *)
(* A client constructs the default parser and calls parse(input), then      *)
(* constructs Parser::new(L), calls its parse(input), and calls lib.rs's    *)
(* parse(input, &L) with the same L; the three results are kept in calls.   *)
(***************************************************************************)
EXTENDS Integers, Sequences, FiniteSets

VARIABLES
    input,    \* the template, a sequence of characters
    parser,   \* the Parser object: [limits |-> Limits]
    state,    \* ParserState of the running parse
    pos,      \* chars: 1-based index of the next (offset, char) pair
    stack,    \* active parse_recursive frames, outermost first
    mode,     \* "idle" | "scan" | "returned" (a nested call just returned Ok)
    ret,      \* the node sequence a nested parse_recursive returned
    calls     \* finished calls, in order: [fn |-> name, result |-> Result]

vars == <<input, parser, state, pos, stack, mode, ret, calls>>

----------------------------------------------------------------------------
(* Bounds of the model *)

MaxTokens == 4
MaxDepthLim == 2
MaxNodesLim == 3

(* Program constants *)

DEFAULT_MAX_DEPTH == 5
DEFAULT_MAX_NODES == 50

----------------------------------------------------------------------------
(* Characters and byte offsets.  A character is a one-character string; the *)
(* two-byte character makes byte offsets differ from character counts.      *)

Tokens == { <<"{", "{">>, <<"}", "}">>, <<"{">>, <<"}">>, <<"a">>, <<"é">> }

len_utf8(ch) == IF ch = "é" THEN 2 ELSE 1

RECURSIVE str_len(_)
str_len(s) == IF s = <<>> THEN 0 ELSE len_utf8(Head(s)) + str_len(Tail(s))

\* char_indices: the byte offset of the i-th character (1-based i)
char_offset(s, i) == str_len(SubSeq(s, 1, i - 1))

\* &original_input[start..end] for offsets on character boundaries
slice(s, start, end) ==
    LET first == CHOOSE i \in 1..(Len(s) + 1) : char_offset(s, i) = start
        last  == CHOOSE i \in 1..(Len(s) + 1) : char_offset(s, i) = end
    IN  SubSeq(s, first, last - 1)

\* the inputs of the tests of parser.rs (lines 207-328), of examples/limits.rs and
\* of the specification's scenarios
TestInputs ==
    { <<"H", "e", "l", "l", "o", " ", "W", "o", "r", "l", "d">>,
      <<"H", "e", "l", "l", "o", " ", "{", "{", "n", "a", "m", "e", "}", "}", "!">>,
      <<"{", "{", "k", "e", "y", ".", "{", "{", "s", "u", "b", "}", "}", "}", "}">>,
      <<"H", "e", "l", "l", "o", " ", "{", "{", "n", "a", "m", "e">>,
      <<"{", "{", "a", "{", "{", "b", "}", "}", "}", "}">>,
      <<"a", "b", "c", "{", "{", "d", "}", "}">>,
      <<"{", "{", "{", "}", "}">>,
      <<"{", "{", "}", "}">>,
      <<"h", "e", "l", "l", "o", "}", "}", "w", "o", "r", "l", "d">>,
      <<"{", "{", "a", "{", "{", "}", "}", "}", "}">>,
      <<"a", "{", "{", "b", "}", "}", "c", "{", "{", "d", "}", "}", "e">> }

RECURSIVE Flatten(_)
Flatten(ts) == IF ts = <<>> THEN <<>> ELSE Head(ts) \o Flatten(Tail(ts))

RECURSIVE TokenSeqs(_)
TokenSeqs(n) ==
    IF n = 0 THEN { <<>> }
    ELSE LET shorter == TokenSeqs(n - 1)
         IN  shorter \cup { <<t>> \o ts : t \in Tokens, ts \in { u \in shorter : Len(u) = n - 1 } }

Inputs == { Flatten(ts) : ts \in TokenSeqs(MaxTokens) } \cup TestInputs

----------------------------------------------------------------------------
(* ast.rs / lib.rs: Node, Limits; Option *)

Text(content) == [tag |-> "Text", content |-> content, parts |-> <<>>]
Variable(parts) == [tag |-> "Variable", content |-> <<>>, parts |-> parts]

Limits(max_depth, max_nodes) == [max_depth |-> max_depth, max_nodes |-> max_nodes]
Limits_default == Limits(DEFAULT_MAX_DEPTH, DEFAULT_MAX_NODES)

LimitsSet ==
    { Limits(d, n) : d \in 0..MaxDepthLim, n \in 0..MaxNodesLim } \cup { Limits_default }

None == [some |-> FALSE, val |-> 0]
Some(x) == [some |-> TRUE, val |-> x]

Ok(v) == [ok |-> TRUE, val |-> v]
Err(e) == [ok |-> FALSE, err |-> e]

----------------------------------------------------------------------------
(* error.rs: Error *)

DepthExceeded(limit, offset) == [kind |-> "DepthExceeded", limit |-> limit, offset |-> offset]
NodeLimitExceeded(limit, offset) == [kind |-> "NodeLimitExceeded", limit |-> limit, offset |-> offset]
UnclosedVariable(offset) == [kind |-> "UnclosedVariable", offset |-> offset]
EmptyVariable(offset) == [kind |-> "EmptyVariable", offset |-> offset]
UnbalancedTag(offset) == [kind |-> "UnbalancedTag", offset |-> offset]

----------------------------------------------------------------------------
(* parser.rs: ParserState *)

ParserState_new(limits) ==
    [node_count |-> 0, depth |-> 0,
     max_nodes |-> limits.max_nodes, max_depth |-> limits.max_depth]

\* mutant: the comparison of inc_node is off by one
inc_node_off_by_one(st, offset) ==
    IF st.node_count > st.max_nodes
    THEN Err(NodeLimitExceeded(st.max_nodes, offset))
    ELSE Ok([st EXCEPT !.node_count = @ + 1])

inc_node(st, offset) ==
    IF st.node_count >= st.max_nodes
    THEN Err(NodeLimitExceeded(st.max_nodes, offset))
    ELSE Ok([st EXCEPT !.node_count = @ + 1])

\* mutant: a max_depth of 0 is taken to mean "no limit"
enter_depth_zero_unlimited(st, offset) ==
    IF st.max_depth > 0 /\ st.depth >= st.max_depth
    THEN Err(DepthExceeded(st.max_depth, offset))
    ELSE Ok([st EXCEPT !.depth = @ + 1])

\* mutant: the comparison of enter_depth is off by one
enter_depth_off_by_one(st, offset) ==
    IF st.depth > st.max_depth
    THEN Err(DepthExceeded(st.max_depth, offset))
    ELSE Ok([st EXCEPT !.depth = @ + 1])

enter_depth(st, offset) ==
    IF st.depth >= st.max_depth
    THEN Err(DepthExceeded(st.max_depth, offset))
    ELSE Ok([st EXCEPT !.depth = @ + 1])

exit_depth(st, offset) ==
    IF st.depth = 0
    THEN Err(UnbalancedTag(offset))
    ELSE Ok([st EXCEPT !.depth = @ - 1])

----------------------------------------------------------------------------
(* parser.rs: parse_recursive, one frame per active call *)

Frame(var_open_offset) ==
    [nodes |-> <<>>, current_text_start |-> None,
     var_open_offset |-> var_open_offset, idx |-> 0]

Top == stack[Len(stack)]

\* the entry point whose call is running or is made next
CurrentFn ==
    IF Len(calls) = 0 THEN "parse"
    ELSE IF Len(calls) <= 2 THEN "Parser::parse"
    ELSE "lib::parse"

InParserRs == mode # "idle" /\ CurrentFn \in {"parse", "Parser::parse"}
InLibRs == mode # "idle" /\ CurrentFn = "lib::parse"

HasNext == pos <= Len(input)
Ch == input[pos]
Idx == char_offset(input, pos)
PeekIs(c) == pos + 1 <= Len(input) /\ input[pos + 1] = c

\* mutant: the flush reports the flush point, not the start of the text run
flush_text_offset_at_flush(st, nodes, current_text_start, idx) ==
    IF current_text_start.some /\ current_text_start.val < idx
    THEN LET r == inc_node(st, idx)
         IN  IF r.ok
             THEN Ok([state |-> r.val,
                      nodes |-> Append(nodes, Text(slice(input, current_text_start.val, idx)))])
             ELSE r
    ELSE Ok([state |-> st, nodes |-> nodes])

\* lines 106-115 and 146-155: flush the pending text span [start, idx)
flush_text(st, nodes, current_text_start, idx) ==
    IF current_text_start.some /\ current_text_start.val < idx
    THEN LET r == inc_node(st, current_text_start.val)
         IN  IF r.ok
             THEN Ok([state |-> r.val,
                      nodes |-> Append(nodes, Text(slice(input, current_text_start.val, idx)))])
             ELSE r
    ELSE Ok([state |-> st, nodes |-> nodes])

\* `?`: the error leaves every active frame; the call returns Err(e)
Fail(st, e) ==
    /\ calls' = Append(calls, [fn |-> CurrentFn, result |-> Err(e)])
    /\ state' = st
    /\ stack' = <<>>
    /\ mode' = "idle"
    /\ ret' = <<>>

\* the outermost parse_recursive returns Ok(nodes) to the entry point
Finish(st, nodes) ==
    /\ calls' = Append(calls, [fn |-> CurrentFn, result |-> Ok(nodes)])
    /\ state' = st
    /\ stack' = <<>>
    /\ mode' = "idle"
    /\ ret' = <<>>

Start(limits) ==
    /\ state' = ParserState_new(limits)
    /\ pos' = 1
    /\ stack' = << Frame(None) >>
    /\ mode' = "scan"
    /\ ret' = <<>>
    /\ UNCHANGED <<input, calls>>

\* mutant: a "{" opens a tag without looking at the next character
IsOpen_without_lookahead == HasNext /\ Ch = "{"

IsOpen == HasNext /\ Ch = "{" /\ PeekIs("{")
\* mutant: "}}" closes whether or not a tag is open
IsClose_at_top_level == HasNext /\ ~IsOpen /\ Ch = "}" /\ PeekIs("}")

IsClose == HasNext /\ ~IsOpen /\ Top.var_open_offset.some /\ Ch = "}" /\ PeekIs("}")

\* lines 101-137 up to the recursive call: "{{" found
open_tag ==
    /\ InParserRs
    /\ mode = "scan" /\ IsOpen
    /\ LET f == flush_text(state, Top.nodes, Top.current_text_start, Idx)
       IN  IF ~f.ok THEN Fail(state, f.err) /\ pos' = pos + 1
           ELSE LET n == inc_node(f.val.state, Idx)
                IN  IF ~n.ok THEN Fail(f.val.state, n.err) /\ pos' = pos + 2
                    ELSE LET d == enter_depth(n.val, Idx)
                         IN  IF ~d.ok THEN Fail(n.val, d.err) /\ pos' = pos + 2
                             ELSE /\ state' = d.val
                                  /\ pos' = pos + 2
                                  /\ stack' = Append(
                                        [stack EXCEPT ![Len(stack)] =
                                            [@ EXCEPT !.nodes = f.val.nodes,
                                                      !.current_text_start = None,
                                                      !.idx = Idx]],
                                        Frame(Some(Idx)))
                                  /\ UNCHANGED <<mode, ret, calls>>
    /\ UNCHANGED <<input, parser>>

\* mutant: no check for an empty variable
close_tag_no_empty_check ==
    /\ InParserRs
    /\ mode = "scan" /\ IsClose
    /\ LET f == flush_text(state, Top.nodes, Top.current_text_start, Idx)
       IN  IF ~f.ok THEN Fail(state, f.err) /\ pos' = pos + 1
           ELSE /\ state' = f.val.state
                /\ pos' = pos + 2
                /\ stack' = SubSeq(stack, 1, Len(stack) - 1)
                /\ mode' = "returned"
                /\ ret' = f.val.nodes
                /\ UNCHANGED calls
    /\ UNCHANGED <<input, parser>>

\* lines 140-171: "}}" found inside a tag
close_tag ==
    /\ InParserRs
    /\ mode = "scan" /\ IsClose
    /\ LET f == flush_text(state, Top.nodes, Top.current_text_start, Idx)
       IN  IF ~f.ok THEN Fail(state, f.err) /\ pos' = pos + 1
           ELSE IF f.val.nodes = <<>>
                THEN Fail(f.val.state, EmptyVariable(Top.var_open_offset.val)) /\ pos' = pos + 2
                ELSE /\ state' = f.val.state
                     /\ pos' = pos + 2
                     /\ stack' = SubSeq(stack, 1, Len(stack) - 1)
                     /\ mode' = "returned"
                     /\ ret' = f.val.nodes
                     /\ UNCHANGED calls
    /\ UNCHANGED <<input, parser>>

\* mutant: the caller forgets exit_depth after the nested call
exit_tag_without_exit_depth ==
    /\ InParserRs
    /\ mode = "returned"
    /\ stack' = [stack EXCEPT ![Len(stack)] =
                    [@ EXCEPT !.nodes = Append(@, Variable(ret))]]
    /\ mode' = "scan"
    /\ ret' = <<>>
    /\ UNCHANGED <<input, parser, pos, state, calls>>

\* lines 127-135: the nested call returned Ok(parts)
exit_tag ==
    /\ InParserRs
    /\ mode = "returned"
    /\ LET x == exit_depth(state, Top.idx)
       IN  IF ~x.ok THEN Fail(state, x.err)
           ELSE /\ state' = x.val
                /\ stack' = [stack EXCEPT ![Len(stack)] =
                                [@ EXCEPT !.nodes = Append(@, Variable(ret))]]
                /\ mode' = "scan"
                /\ ret' = <<>>
                /\ UNCHANGED calls
    /\ UNCHANGED <<input, parser, pos>>

\* mutant: the text start is overwritten at every character
normal_char_restarts ==
    /\ InParserRs
    /\ mode = "scan" /\ HasNext /\ ~IsOpen /\ ~IsClose
    /\ stack' = [stack EXCEPT ![Len(stack)] =
                    [@ EXCEPT !.current_text_start = Some(Idx)]]
    /\ pos' = pos + 1
    /\ UNCHANGED <<input, parser, state, mode, ret, calls>>

\* lines 173-176: any other character
normal_char ==
    /\ InParserRs
    /\ mode = "scan" /\ HasNext /\ ~IsOpen /\ ~IsClose
    /\ stack' = [stack EXCEPT ![Len(stack)] =
                    [@ EXCEPT !.current_text_start = IF @.some THEN @ ELSE Some(Idx)]]
    /\ pos' = pos + 1
    /\ UNCHANGED <<input, parser, state, mode, ret, calls>>

\* mutant: the pending text is flushed before the unclosed tag is reported
end_of_input_flush_first ==
    /\ InParserRs
    /\ mode = "scan" /\ ~HasNext
    /\ LET f == flush_text(state, Top.nodes, Top.current_text_start, str_len(input))
       IN  IF ~f.ok THEN Fail(state, f.err)
           ELSE IF Top.var_open_offset.some
                THEN Fail(f.val.state, UnclosedVariable(Top.var_open_offset.val))
                ELSE Finish(f.val.state, f.val.nodes)
    /\ UNCHANGED <<input, parser, pos>>

\* lines 179-199: end of input
end_of_input ==
    /\ InParserRs
    /\ mode = "scan" /\ ~HasNext
    /\ IF Top.var_open_offset.some
       THEN Fail(state, UnclosedVariable(Top.var_open_offset.val))
       ELSE LET f == flush_text(state, Top.nodes, Top.current_text_start, str_len(input))
            IN  IF ~f.ok THEN Fail(state, f.err)
                ELSE Finish(f.val.state, f.val.nodes)
    /\ UNCHANGED <<input, parser, pos>>

----------------------------------------------------------------------------
(* parser.rs: entry points *)

\* parse(input): Parser::default().parse(input)
parse ==
    /\ mode = "idle" /\ Len(calls) = 0
    /\ parser' = [limits |-> Limits_default]
    /\ Start(Limits_default)

Parser_new ==
    /\ mode = "idle" /\ Len(calls) = 1
    /\ \E limits \in LimitsSet : parser' = [limits |-> limits]
    /\ calls' = Append(calls, [fn |-> "Parser::new", result |-> Ok(<<>>)])
    /\ UNCHANGED <<input, state, pos, stack, mode, ret>>

\* Parser::parse(&self, input): parse_inner(input, &self.limits)
Parser_parse ==
    /\ mode = "idle" /\ Len(calls) = 2
    /\ Start(parser.limits)
    /\ UNCHANGED parser

----------------------------------------------------------------------------
(* lib.rs: Error, ParserState, parse_recursive, parse *)

lib_DepthExceeded(limit) == [kind |-> "DepthExceeded", limit |-> limit]
lib_NodeLimitExceeded(limit) == [kind |-> "NodeLimitExceeded", limit |-> limit]
lib_UnclosedVariable == [kind |-> "UnclosedVariable"]

lib_ParserState_new(limits) ==
    [node_count |-> 0, depth |-> 0,
     max_nodes |-> limits.max_nodes, max_depth |-> limits.max_depth]

lib_inc_node(st) ==
    IF st.node_count >= st.max_nodes
    THEN Err(lib_NodeLimitExceeded(st.max_nodes))
    ELSE Ok([st EXCEPT !.node_count = @ + 1])

lib_enter_depth(st) ==
    IF st.depth >= st.max_depth
    THEN Err(lib_DepthExceeded(st.max_depth))
    ELSE Ok([st EXCEPT !.depth = @ + 1])

lib_exit_depth(st) ==
    IF st.depth > 0 THEN [st EXCEPT !.depth = @ - 1] ELSE st

lib_Frame(is_inside_variable) ==
    [nodes |-> <<>>, current_text_start |-> None,
     is_inside_variable |-> is_inside_variable]

\* lines 176-185 and 215-224
lib_flush_text(st, nodes, current_text_start, idx) ==
    IF current_text_start.some /\ current_text_start.val < idx
    THEN LET r == lib_inc_node(st)
         IN  IF r.ok
             THEN Ok([state |-> r.val,
                      nodes |-> Append(nodes, Text(slice(input, current_text_start.val, idx)))])
             ELSE r
    ELSE Ok([state |-> st, nodes |-> nodes])

lib_IsClose == HasNext /\ ~IsOpen /\ Top.is_inside_variable /\ Ch = "}" /\ PeekIs("}")

\* lines 171-207 up to the recursive call
lib_open_tag ==
    /\ InLibRs
    /\ mode = "scan" /\ IsOpen
    /\ LET f == lib_flush_text(state, Top.nodes, Top.current_text_start, Idx)
       IN  IF ~f.ok THEN Fail(state, f.err) /\ pos' = pos + 1
           ELSE LET n == lib_inc_node(f.val.state)
                IN  IF ~n.ok THEN Fail(f.val.state, n.err) /\ pos' = pos + 2
                    ELSE LET d == lib_enter_depth(n.val)
                         IN  IF ~d.ok THEN Fail(n.val, d.err) /\ pos' = pos + 2
                             ELSE /\ state' = d.val
                                  /\ pos' = pos + 2
                                  /\ stack' = Append(
                                        [stack EXCEPT ![Len(stack)] =
                                            [@ EXCEPT !.nodes = f.val.nodes,
                                                      !.current_text_start = None]],
                                        lib_Frame(TRUE))
                                  /\ UNCHANGED <<mode, ret, calls>>
    /\ UNCHANGED <<input, parser>>

\* lines 210-232
lib_close_tag ==
    /\ InLibRs
    /\ mode = "scan" /\ lib_IsClose
    /\ LET f == lib_flush_text(state, Top.nodes, Top.current_text_start, Idx)
       IN  IF ~f.ok THEN Fail(state, f.err) /\ pos' = pos + 1
           ELSE /\ state' = f.val.state
                /\ pos' = pos + 2
                /\ stack' = SubSeq(stack, 1, Len(stack) - 1)
                /\ mode' = "returned"
                /\ ret' = f.val.nodes
                /\ UNCHANGED calls
    /\ UNCHANGED <<input, parser>>

\* lines 197-205
lib_exit_tag ==
    /\ InLibRs
    /\ mode = "returned"
    /\ state' = lib_exit_depth(state)
    /\ stack' = [stack EXCEPT ![Len(stack)] =
                    [@ EXCEPT !.nodes = Append(@, Variable(ret))]]
    /\ mode' = "scan"
    /\ ret' = <<>>
    /\ UNCHANGED <<input, parser, pos, calls>>

\* lines 234-237
lib_normal_char ==
    /\ InLibRs
    /\ mode = "scan" /\ HasNext /\ ~IsOpen /\ ~lib_IsClose
    /\ stack' = [stack EXCEPT ![Len(stack)] =
                    [@ EXCEPT !.current_text_start = IF @.some THEN @ ELSE Some(Idx)]]
    /\ pos' = pos + 1
    /\ UNCHANGED <<input, parser, state, mode, ret, calls>>

\* lines 240-258
lib_end_of_input ==
    /\ InLibRs
    /\ mode = "scan" /\ ~HasNext
    /\ IF Top.is_inside_variable
       THEN Fail(state, lib_UnclosedVariable)
       ELSE LET f == lib_flush_text(state, Top.nodes, Top.current_text_start, str_len(input))
            IN  IF ~f.ok THEN Fail(state, f.err)
                ELSE Finish(f.val.state, f.val.nodes)
    /\ UNCHANGED <<input, parser, pos>>

\* parse(input, limits), called with the limits of the Parser built before
lib_parse ==
    /\ mode = "idle" /\ Len(calls) = 3
    /\ state' = lib_ParserState_new(parser.limits)
    /\ pos' = 1
    /\ stack' = << lib_Frame(FALSE) >>
    /\ mode' = "scan"
    /\ ret' = <<>>
    /\ UNCHANGED <<input, parser, calls>>

----------------------------------------------------------------------------
(* The client and the specification *)

Init ==
    /\ input \in Inputs
    /\ parser = [limits |-> Limits_default]
    /\ state = ParserState_new(Limits_default)
    /\ pos = 1
    /\ stack = <<>>
    /\ mode = "idle"
    /\ ret = <<>>
    /\ calls = <<>>

Next ==
    \/ parse
    \/ Parser_new
    \/ Parser_parse
    \/ open_tag
    \/ close_tag
    \/ exit_tag
    \/ normal_char
    \/ end_of_input
    \/ lib_parse
    \/ lib_open_tag
    \/ lib_close_tag
    \/ lib_exit_tag
    \/ lib_normal_char
    \/ lib_end_of_input

Spec == Init /\ [][Next]_vars

----------------------------------------------------------------------------
(* Vocabulary of the claims *)

Finished == { i \in 1..Len(calls) : calls[i].fn # "Parser::new" }
FinishedParserRs == { i \in Finished : calls[i].fn \in {"parse", "Parser::parse"} }

\* the limits a call was made with
LimitsOf(i) == IF calls[i].fn = "parse" THEN Limits_default ELSE parser.limits
CurLimits == IF CurrentFn = "parse" THEN Limits_default ELSE parser.limits

RECURSIVE Render(_)
Render(nodes) ==
    IF nodes = <<>> THEN <<>>
    ELSE LET n == Head(nodes)
         IN  (IF n.tag = "Text" THEN n.content
              ELSE <<"{", "{">> \o Render(n.parts) \o <<"}", "}">>) \o Render(Tail(nodes))

RECURSIVE NodeCount(_)
NodeCount(nodes) ==
    IF nodes = <<>> THEN 0
    ELSE 1 + NodeCount(Head(nodes).parts) + NodeCount(Tail(nodes))

Max(a, b) == IF a >= b THEN a ELSE b

RECURSIVE Nesting(_)
Nesting(nodes) ==
    IF nodes = <<>> THEN 0
    ELSE LET n == Head(nodes)
         IN  Max(IF n.tag = "Variable" THEN 1 + Nesting(n.parts) ELSE 0, Nesting(Tail(nodes)))

RECURSIVE HasEmptyVariable(_)
HasEmptyVariable(nodes) ==
    /\ nodes # <<>>
    /\ LET n == Head(nodes)
       IN  \/ n.tag = "Variable" /\ (n.parts = <<>> \/ HasEmptyVariable(n.parts))
           \/ HasEmptyVariable(Tail(nodes))

\* the input has "{{" somewhere
HasOpen(s) == \E i \in 1..(Len(s) - 1) : s[i] = "{" /\ s[i + 1] = "{"

----------------------------------------------------------------------------
(* C1: every Variable node of a successfully returned AST, at any nesting   *)
(* level and from any parse entry point, owns at least one child.          *)
(* lib.rs's parse returns Ok([Variable { parts: [] }]) for "{{}}".          *)
C1_NoEmptyVariable ==
    \A i \in Finished : calls[i].result.ok => ~HasEmptyVariable(calls[i].result.val)

(* C2: structural round trip: rendering the nodes of a successful parse in  *)
(* order (a Text as its content, a Variable as "{{" children "}}")          *)
(* reproduces the input exactly.                                           *)
C2_RoundTrip ==
    \A i \in Finished : calls[i].result.ok => Render(calls[i].result.val) = input

\* a successful parse of text, a tag with a nested tag, and trailing text
C2_Witness ==
    \E i \in FinishedParserRs :
        /\ calls[i].result.ok
        /\ Len(calls[i].result.val) >= 2
        /\ Nesting(calls[i].result.val) >= 1
        /\ NodeCount(calls[i].result.val) >= 4

(* C3: at every step node_count <= max_nodes and depth <= max_depth, the    *)
(* limits being those the call was made with; a successful result has at    *)
(* most max_nodes nodes in total and nests Variables at most max_depth deep. *)
C3_LimitsRespected ==
    /\ state.node_count <= state.max_nodes
    /\ state.depth <= state.max_depth
    /\ mode # "idle" =>
          /\ state.max_nodes = CurLimits.max_nodes
          /\ state.max_depth = CurLimits.max_depth
    /\ \A i \in Finished :
          calls[i].result.ok =>
             /\ NodeCount(calls[i].result.val) <= LimitsOf(i).max_nodes
             /\ Nesting(calls[i].result.val) <= LimitsOf(i).max_depth

\* a successful parse that uses up both limits
C3_Witness ==
    \E i \in FinishedParserRs :
        /\ calls[i].result.ok
        /\ LimitsOf(i).max_depth >= 1
        /\ NodeCount(calls[i].result.val) = LimitsOf(i).max_nodes
        /\ Nesting(calls[i].result.val) = LimitsOf(i).max_depth

(* C4: parse(input, L) of lib.rs and Parser::new(L).parse(input) return the *)
(* same nodes on success and fail on the same inputs with the same error    *)
(* variant; parse(input) is Parser::new(Limits::default()).parse(input).    *)
(* On "{{}}" lib.rs returns Ok and parser.rs returns EmptyVariable.         *)
C4_SameOperation ==
    Len(calls) = 4 =>
        LET dflt == calls[1].result
            bound == calls[3].result
            stateless == calls[4].result
        IN  /\ stateless.ok = bound.ok
            /\ bound.ok => stateless.val = bound.val
            /\ ~bound.ok => stateless.err.kind = bound.err.kind
            /\ parser.limits = Limits_default => dflt = bound
----------------------------------------------------------------------------
(* Vocabulary of the claims about single steps *)

\* this step ends the running call with Err(e)
StepFails(e) == calls' = Append(calls, [fn |-> CurrentFn, result |-> Err(e)])

\* this step ends the running call with an error of variant k
StepErrKind(k) ==
    /\ mode # "idle" /\ mode' = "idle"
    /\ ~calls'[Len(calls')].result.ok
    /\ calls'[Len(calls')].result.err.kind = k

\* this step ends the running call with Ok
StepOk == mode # "idle" /\ mode' = "idle" /\ calls'[Len(calls')].result.ok

\* the input has "{{" at byte offset off
IsOpenAt(off) ==
    \E i \in 1..(Len(input) - 1) :
        char_offset(input, i) = off /\ input[i] = "{" /\ input[i + 1] = "{"

\* the byte offset of the first "{{" of s
FirstOpenOffset(s) ==
    char_offset(s, CHOOSE i \in 1..(Len(s) - 1) :
                      /\ s[i] = "{" /\ s[i + 1] = "{"
                      /\ \A j \in 1..(i - 1) : ~(s[j] = "{" /\ s[j + 1] = "{"))

LastCall == calls[Len(calls)]
JustFinishedParserRs ==
    mode = "idle" /\ Len(calls) > 0 /\ LastCall.fn \in {"parse", "Parser::parse"}

\* the frame scans a text run that is not flushed yet
Pending == Top.current_text_start.some

\* the offset of the "{{" of the innermost open tag, as its caller recorded it
OpenOffset == stack[Len(stack) - 1].idx

(* C5: a "}}" met at top level closes nothing and causes no error, it is    *)
(* scanned as text; a non-empty input without "{{" parses, under max_nodes  *)
(* >= 1, to exactly one Text node holding the whole input.                  *)
C5_PlainText ==
    \A i \in Finished :
        (input # <<>> /\ ~HasOpen(input) /\ LimitsOf(i).max_nodes >= 1)
            => calls[i].result = Ok(<< Text(input) >>)

C5_TopLevelStep ==
    (mode = "scan" /\ state.depth = 0 /\ HasNext /\ Ch = "}" /\ PeekIs("}"))
        => /\ mode' = "scan"
           /\ calls' = calls
           /\ state' = state
           /\ pos' = pos + 1
           /\ Len(stack') = 1
           /\ stack'[1].nodes = stack[1].nodes
           /\ stack'[1].current_text_start.some
           /\ stack'[1].current_text_start.val <= Idx

C5_TopLevelCloseIsText == []C5_PlainText /\ [][C5_TopLevelStep]_vars

\* an input with "}}" and no "{{" was parsed to one Text node
C5_Witness ==
    \E i \in FinishedParserRs :
        /\ \E k \in 1..(Len(input) - 1) : input[k] = "}" /\ input[k + 1] = "}"
        /\ ~HasOpen(input)
        /\ calls[i].result = Ok(<< Text(input) >>)

(* C6: end of input with a tag open fails with UnclosedVariable at the      *)
(* offset of the "{{" of the innermost open tag, without counting the text  *)
(* pending in that tag; parse returns Ok only with no tag open.             *)
C6_Step ==
    /\ (InParserRs /\ mode = "scan" /\ ~HasNext /\ Len(stack) > 1)
          => /\ StepFails(UnclosedVariable(OpenOffset))
             /\ IsOpenAt(OpenOffset)
             /\ state' = state
    /\ (InParserRs /\ StepOk)
          => /\ Len(stack) = 1
             /\ state.depth = 0
             /\ ~HasNext

C6_UnclosedVariable == [][C6_Step]_vars

\* an unclosed nested tag with pending text, met with the node budget used up
C6_Witness ==
    /\ JustFinishedParserRs
    /\ ~LastCall.result.ok
    /\ LastCall.result.err.kind = "UnclosedVariable"
    /\ LastCall.result.err.offset > 0
    /\ state.node_count = state.max_nodes
    /\ input[Len(input)] \notin {"{", "}"}

(* C7: a "{{" met with depth = max_depth while the node budget admits the   *)
(* Variable fails with DepthExceeded{max_depth, offset of the "{{"};        *)
(* DepthExceeded arises in no other way; when the node budget does not      *)
(* admit the Variable the node check comes first: NodeLimitExceeded.       *)
C7_Admits ==
    state.node_count + (IF Pending THEN 2 ELSE 1) <= CurLimits.max_nodes

C7_Step ==
    LET AtOpen == InParserRs /\ mode = "scan" /\ IsOpen
        AtCap  == state.depth = CurLimits.max_depth
    IN  /\ (AtOpen /\ AtCap /\ C7_Admits)
              => StepFails(DepthExceeded(CurLimits.max_depth, Idx))
        /\ (InParserRs /\ StepErrKind("DepthExceeded"))
              => (AtOpen /\ AtCap /\ C7_Admits)
        /\ (AtOpen /\ AtCap /\ ~C7_Admits)
              => StepErrKind("NodeLimitExceeded")

C7_DepthExceeded == [][C7_Step]_vars

\* DepthExceeded for a nested tag
C7_Witness ==
    /\ JustFinishedParserRs
    /\ ~LastCall.result.ok
    /\ LastCall.result.err.kind = "DepthExceeded"
    /\ LastCall.result.err.limit >= 1
    /\ LastCall.result.err.offset > 0
    /\ IsOpenAt(LastCall.result.err.offset)

(* C8: NodeLimitExceeded{max_nodes, offset} arises exactly when max_nodes   *)
(* nodes are counted and one more is about to be created: a Text node when  *)
(* a pending run is flushed (at "{{", at the closing "}}", at top-level end *)
(* of input), offset = first byte of the run; a Variable node at "{{",      *)
(* offset = its first "{".                                                  *)
C8_RunStart(start) ==
    \/ start = 0
    \/ \E i \in 3..Len(input) :
          /\ char_offset(input, i) = start
          /\ \/ input[i - 2] = "{" /\ input[i - 1] = "{"
             \/ input[i - 2] = "}" /\ input[i - 1] = "}"

C8_Step ==
    LET max == CurLimits.max_nodes
        TextDue == /\ mode = "scan" /\ Pending
                   /\ \/ IsOpen
                      \/ IsClose
                      \/ ~HasNext /\ Len(stack) = 1
        VarDue == mode = "scan" /\ IsOpen
        TextFull == TextDue /\ state.node_count = max
        VarFull == /\ VarDue /\ ~TextFull
                   /\ state.node_count + (IF Pending THEN 1 ELSE 0) = max
    IN  InParserRs =>
          /\ TextFull => /\ StepFails(NodeLimitExceeded(max, Top.current_text_start.val))
                         /\ C8_RunStart(Top.current_text_start.val)
          /\ VarFull => StepFails(NodeLimitExceeded(max, Idx))
          /\ StepErrKind("NodeLimitExceeded") => (TextFull \/ VarFull)

C8_NodeLimitExceeded == [][C8_Step]_vars

\* NodeLimitExceeded for a Text node that does not start the input
C8_Witness ==
    /\ JustFinishedParserRs
    /\ ~LastCall.result.ok
    /\ LastCall.result.err.kind = "NodeLimitExceeded"
    /\ LastCall.result.err.limit >= 1
    /\ LastCall.result.err.offset > 0
    /\ ~IsOpenAt(LastCall.result.err.offset)

(* C9: the closing "}}" of a tag that has no children (its "{{" is directly *)
(* followed by "}}") fails with EmptyVariable at the offset of that tag's   *)
(* "{{", also for a nested tag or one preceded by text.                     *)
C9_Step ==
    LET AtClose == InParserRs /\ mode = "scan" /\ IsClose
        NoChildren == Top.nodes = <<>> /\ ~Pending
    IN  /\ AtClose => (NoChildren <=> Idx = OpenOffset + 2)
        /\ (AtClose /\ NoChildren)
              => /\ StepFails(EmptyVariable(OpenOffset))
                 /\ IsOpenAt(OpenOffset)
        /\ (InParserRs /\ StepErrKind("EmptyVariable")) => (AtClose /\ NoChildren)

C9_EmptyVariable == [][C9_Step]_vars

\* "{{a{{}}...": the empty tag is nested and preceded by text, offset 3
C9_Witness ==
    /\ JustFinishedParserRs
    /\ Len(input) >= 7
    /\ SubSeq(input, 1, 7) = <<"{", "{", "a", "{", "{", "}", "}">>
    /\ LastCall.result = Err(EmptyVariable(3))

(* C10 as stated: with max_nodes = 0 or max_depth = 0 every non-empty input *)
(* fails (NodeLimitExceeded{0}, or DepthExceeded{0} at the first "{{"       *)
(* unless the node limit is hit first); the empty input gives Ok([]).       *)
C10_ZeroLimitFailsNonEmpty ==
    \A i \in FinishedParserRs :
        LET L == LimitsOf(i)
            r == calls[i].result
        IN  /\ input = <<>> => r = Ok(<<>>)
            /\ (input # <<>> /\ L.max_nodes = 0)
                  => (~r.ok /\ r.err.kind = "NodeLimitExceeded" /\ r.err.limit = 0)
            /\ (input # <<>> /\ L.max_nodes > 0 /\ L.max_depth = 0)
                  => /\ ~r.ok
                     /\ \/ r.err.kind = "NodeLimitExceeded"
                        \/ r.err = DepthExceeded(0, FirstOpenOffset(input))

(* C10 amended: with max_nodes = 0 every non-empty input fails with         *)
(* NodeLimitExceeded{0} at offset 0; with max_depth = 0 (and max_nodes > 0) *)
(* every input that contains "{{" fails at its first "{{", with             *)
(* DepthExceeded{0} unless the node limit is hit first, and an input        *)
(* without "{{" still parses to one Text node; the empty input gives Ok([]).*)
C10_ZeroLimit ==
    \A i \in FinishedParserRs :
        LET L == LimitsOf(i)
            r == calls[i].result
        IN  /\ input = <<>> => r = Ok(<<>>)
            /\ (input # <<>> /\ L.max_nodes = 0) => r = Err(NodeLimitExceeded(0, 0))
            /\ (HasOpen(input) /\ L.max_nodes > 0 /\ L.max_depth = 0)
                  => LET first == FirstOpenOffset(input)
                         needed == IF first > 0 THEN 2 ELSE 1
                     IN  IF L.max_nodes >= needed
                         THEN r = Err(DepthExceeded(0, first))
                         ELSE r = Err(NodeLimitExceeded(L.max_nodes, first))
            /\ (input # <<>> /\ ~HasOpen(input) /\ L.max_nodes > 0 /\ L.max_depth = 0)
                  => r = Ok(<< Text(input) >>)
            /\ (r.ok /\ L.max_depth = 0) => Nesting(r.val) = 0
            /\ (r.ok /\ L.max_nodes = 0) => r.val = <<>>

\* with max_depth = 0, DepthExceeded at a "{{" that does not start the input
C10_Witness ==
    /\ JustFinishedParserRs
    /\ parser.limits.max_depth = 0
    /\ LastCall.fn = "Parser::parse"
    /\ ~LastCall.result.ok
    /\ LastCall.result.err.kind = "DepthExceeded"
    /\ LastCall.result.err.limit = 0
    /\ LastCall.result.err.offset > 0

(* C11: braces are paired greedily, left to right, with one character of    *)
(* lookahead: a "{" opens a tag exactly when the next character is "{";     *)
(* at "{{{" followed by another character the first pair opens one          *)
(* Variable at the offset of the first "{" and the third "{" starts the     *)
(* first Text child of that Variable; a "{" not followed by "{" is text.    *)
C11_Result ==
    \A i \in Finished :
        (/\ calls[i].result.ok
         /\ Len(input) >= 4
         /\ SubSeq(input, 1, 3) = <<"{", "{", "{">>
         /\ input[4] # "{")
            => LET first == calls[i].result.val[1]
               IN  /\ first.tag = "Variable"
                   /\ first.parts[1].tag = "Text"
                   /\ first.parts[1].content[1] = "{"

C11_Step ==
    LET AtBrace == mode = "scan" /\ HasNext /\ Ch = "{"
        Opened == /\ mode' = "scan"
                  /\ calls' = calls
                  /\ pos' = pos + 2
                  /\ Len(stack') = Len(stack) + 1
                  /\ stack'[Len(stack')].nodes = <<>>
                  /\ ~stack'[Len(stack')].current_text_start.some
                  /\ InParserRs => stack'[Len(stack')].var_open_offset = Some(Idx)
        Refused == \/ StepErrKind("NodeLimitExceeded")
                   \/ StepErrKind("DepthExceeded")
        IsText == /\ mode' = "scan"
                  /\ calls' = calls
                  /\ state' = state
                  /\ pos' = pos + 1
                  /\ Len(stack') = Len(stack)
                  /\ stack'[Len(stack')].nodes = Top.nodes
                  /\ stack'[Len(stack')].current_text_start =
                        (IF Pending THEN Top.current_text_start ELSE Some(Idx))
        AfterPair == pos >= 3 /\ input[pos - 1] = "{" /\ input[pos - 2] = "{"
    IN  /\ (AtBrace /\ PeekIs("{")) => (Opened \/ Refused)
        /\ (AtBrace /\ ~PeekIs("{")) => IsText
        /\ (mode # "idle" /\ Len(stack') > Len(stack)) => (AtBrace /\ PeekIs("{"))
        /\ (AtBrace /\ ~PeekIs("{") /\ AfterPair)
              => /\ Len(stack) > 1
                 /\ Top.nodes = <<>>
                 /\ ~Pending
                 /\ InParserRs => Top.var_open_offset = Some(Idx - 2)

C11_GreedyBraces == []C11_Result /\ [][C11_Step]_vars

\* "{{{" and a closing "}}" parsed to a Variable whose first child is Text("{...")
C11_Witness ==
    \E i \in FinishedParserRs :
        /\ calls[i].result.ok
        /\ Len(input) >= 5
        /\ SubSeq(input, 1, 3) = <<"{", "{", "{">>
        /\ input[4] # "{"
        /\ calls[i].result.val[1].parts[1].content[1] = "{"

(* C12: depth accounting is balanced: while a parse scans, depth is the     *)
(* number of open tags (active nested parse_recursive calls); a tag is      *)
(* entered with exactly one enter_depth and its successful return is        *)
(* followed by exactly one exit_depth, which never underflows; depth is 0   *)
(* when parse returns Ok; no parse returns UnbalancedTag.                   *)
C12_Inv ==
    /\ mode = "scan" => state.depth = Len(stack) - 1
    \* the nested call has returned and the caller's exit_depth is due
    /\ mode = "returned" => (state.depth = Len(stack) /\ state.depth >= 1)
    /\ \A i \in Finished :
          ~calls[i].result.ok => calls[i].result.err.kind # "UnbalancedTag"

C12_Step ==
    LET Enters  == mode = "scan" /\ mode' = "scan" /\ Len(stack') = Len(stack) + 1
        Returns == mode = "scan" /\ mode' = "returned"
        Exits   == mode = "returned" /\ mode' = "scan"
    IN  mode # "idle" =>
          /\ Enters => state'.depth = state.depth + 1
          /\ Returns => (state'.depth = state.depth /\ Len(stack') = Len(stack) - 1)
          /\ Exits => /\ state'.depth = state.depth - 1
                      /\ Len(stack') = Len(stack)
                      /\ stack'[Len(stack')].nodes = Append(Top.nodes, Variable(ret))
          /\ mode = "returned" => Exits
          /\ (mode' # "idle" /\ ~Enters /\ ~Exits) => state'.depth = state.depth
          /\ StepOk => (state.depth = 0 /\ state'.depth = 0)

C12_BalancedDepth == []C12_Inv /\ [][C12_Step]_vars

\* a parse with a tag nested in a tag returned Ok, with depth back at 0
C12_Witness ==
    /\ JustFinishedParserRs
    /\ LastCall.result.ok
    /\ Nesting(LastCall.result.val) >= 2
    /\ state.depth = 0
====
